---- MODULE Spec2Model ----
(***************************************************************************)
(* avx-turbo: the measurement harness of src/avx-turbo.cpp.                *)
(*                                                                         *)
(* The model follows main() and run_test() step by step: argument          *)
(* validation, start-up, the warm-up measurement, test selection, one      *)
(* run_test per selected kernel with its APERF/MPERF ratios, and the       *)
(* report.  The probe (aperf_ghz / dummy_outer) is modelled by operators   *)
(* on a probe record; a failed assert() ends the process with SIGABRT.     *)
(*                                                                         *)
(* Numbers.  uint64_t values are kept modulo Word = 2^WordBits: TLC's      *)
(* integers are 32 bits wide, so the 64-bit registers are scaled to        *)
(* WordBits bits and every addition and subtraction on them wraps the way  *)
(* the code's does.  A double is kept as the exact fraction num/den that   *)
(* it was computed from; den = 0 stands for the IEEE results inf and NaN.  *)
(*                                                                         *)
(* Environment.  A kernel is an opaque function whose cost in TSC ticks    *)
(* for argument n is TicksPerIter * n + c; the hardware counters advance   *)
(* while kernels and clock reads execute.  The core frequency may change   *)
(* between two passes of run_test (FreqChange).                            *)
(***************************************************************************)
EXTENDS Integers, Sequences, FiniteSets, TLC

\* ------------------------------------------------------------------------
\* Bounds of the model
\* ------------------------------------------------------------------------

\* Width the 64-bit registers are scaled to.
WordBits == 24

\* Frequency changes the environment may make during one run_test.
MaxFreqChanges == 1

\* Calls a free driver makes on a probe (specification SpecProbe).
MaxProbeCalls == 5

\* Times the free driver lets the hardware counters advance.
MaxAdvances == 2

Word == 2 ^ WordBits

\* ------------------------------------------------------------------------
\* Program constants
\* ------------------------------------------------------------------------

BASE == 1
AVX2 == 2
AVX512 == 4

TRIES == 101
WARMUP == 3

\* iteration count of the throw-away warm-up measurement in main
WarmupIters == 1000000

\* the enumerators of aperf_ghz::state
STARTED == "STARTED"
STOPPED == "STOPPED"

ALL_FUNCS ==
    << [id |-> "scalar_iadd", description |-> "Scalar integer adds",  isa |-> BASE],
       [id |-> "avx128_iadd", description |-> "128-bit integer adds", isa |-> AVX2],
       [id |-> "avx256_iadd", description |-> "256-bit integer adds", isa |-> AVX2],
       [id |-> "avx512_iadd", description |-> "512-bit integer adds", isa |-> AVX512] >>

\* arg_focus when --test was not given
NoFocus == "<unset>"

\* ------------------------------------------------------------------------
\* Arithmetic helpers
\* ------------------------------------------------------------------------

\* uint64_t addition and subtraction
AddW(x, y) == (x + y) % Word
SubW(x, y) == ((x - y) + Word) % Word

RECURSIVE BitAnd(_, _)
BitAnd(x, y) ==
    IF x = 0 \/ y = 0 THEN 0
    ELSE (IF x % 2 = 1 /\ y % 2 = 1 THEN 1 ELSE 0) + 2 * BitAnd(x \div 2, y \div 2)

RECURSIVE BitOr(_, _)
BitOr(x, y) ==
    IF x = 0 THEN y
    ELSE IF y = 0 THEN x
    ELSE (IF x % 2 = 1 \/ y % 2 = 1 THEN 1 ELSE 0) + 2 * BitOr(x \div 2, y \div 2)

\* a double computed as the quotient n / d
Quot(n, d) == [num |-> n, den |-> d]
Zero == Quot(0, 1)
IsFinite(q) == q.den # 0
IsPositive(q) == q.den > 0 /\ q.num > 0

\* ------------------------------------------------------------------------
\* State
\* ------------------------------------------------------------------------

VARIABLES
    args,            \* the parsed command line: help, iters, focus
    env,             \* the platform: euid, MSR access, pinning, CPU features, machine
    hw,              \* the free-running hardware counters: tsc, mperf, aperf
    throttled,       \* whether the core currently runs at the reduced frequency
    pc,              \* position in main / run_test
    exit_status,     \* how the process ended
    fault,           \* which assert() failed, if any
    use_aperf,       \* main's use_aperf (= is_root)
    isas_supported,  \* main's isas_supported
    aperf_timer,     \* main's aperf_ghz instance
    rt,              \* the frame of the running run_test call
    tests,           \* main's tests vector
    i,               \* main's loop index (0-based)
    op_results,      \* main's result vectors
    aperf_am,
    aperf_mt,
    table,           \* the report: header and rows
    g                \* history: counts of the calls made so far

vars == << args, env, hw, throttled, pc, exit_status, fault, use_aperf,
           isas_supported, aperf_timer, rt, tests, i, op_results, aperf_am,
           aperf_mt, table, g >>

mainVars == << use_aperf, isas_supported, tests, i, op_results, aperf_am,
               aperf_mt, table >>

\* ------------------------------------------------------------------------
\* Environment: kernels, clock, counters
\* ------------------------------------------------------------------------

\* The machines the model runs on: a ticks per kernel iteration, c ticks of
\* fixed cost per kernel call, now_cost ticks per clock read, turbo APERF
\* increments per tick at full frequency, tsc_mhz the calibrated TSC rate.
Machines ==
    { [a |-> 1, c |-> 0, now_cost |-> 0, turbo |-> 1, tsc_mhz |-> 1000],
      [a |-> 2, c |-> 7, now_cost |-> 3, turbo |-> 2, tsc_mhz |-> 3000] }

TicksPerIter == IF throttled THEN 2 * env.machine.a ELSE env.machine.a

\* ticks one call func(n) takes
Elapsed(n) == TicksPerIter * n + env.machine.c

\* the counters after `ticks` ticks of unhalted execution
Advance(h, ticks) ==
    [tsc   |-> AddW(h.tsc, ticks),
     mperf |-> AddW(h.mperf, ticks),
     aperf |-> AddW(h.aperf, ticks * (IF throttled THEN 1 ELSE env.machine.turbo))]

HwStarts ==
    { [tsc |-> 0, mperf |-> 0, aperf |-> 0],
      [tsc |-> Word - 5, mperf |-> Word - 2, aperf |-> Word - 1] }

\* ------------------------------------------------------------------------
\* RdtscClock
\* ------------------------------------------------------------------------

\* RdtscClock::tsc_freq in MHz (get_tsc_freq is the calibration service)
tsc_freq == env.machine.tsc_mhz

\* RdtscClock::to_nanos: diff * (1e9 / tsc_freq), truncated to uint64_t.
\* floor(diff * 1000 / MHz), computed without leaving 32 bits.
to_nanos(diff) ==
    (diff \div tsc_freq) * 1000 + ((diff % tsc_freq) * 1000) \div tsc_freq

\* ------------------------------------------------------------------------
\* Probes: dummy_outer and aperf_ghz
\* ------------------------------------------------------------------------

\* aperf_ghz::aperf_ghz()
aperf_ghz_new ==
    [mperf_value |-> 0, aperf_value |-> 0, tsc_value |-> 0, state |-> STOPPED]

\* The outcome of a call on a probe: the probe after it, the assert that
\* failed ("none" when the call returned) and the MSR reads it made.
Outcome(p, f, n) == [p |-> p, fault |-> f, reads |-> n]

\* dummy_outer::start and dummy_outer::stop
dummy_start(p) == Outcome(p, "none", 0)
dummy_stop(p) == Outcome(p, "none", 0)

\* aperf_ghz::start
aperf_start(p) ==
    IF p.state # STOPPED THEN Outcome(p, "assert_state", 0)
    ELSE IF ~env.msr_ok
         THEN Outcome([p EXCEPT !.state = STARTED], "assert_read", 1)
         ELSE Outcome([state |-> STARTED,
                       mperf_value |-> hw.mperf,
                       aperf_value |-> hw.aperf,
                       tsc_value   |-> hw.tsc], "none", 2)

\* a stop() that leaves out the state assertion
aperf_stop_unchecked(p) ==
    IF ~env.msr_ok THEN Outcome(p, "assert_read", 1)
    ELSE Outcome([state |-> STOPPED,
                  mperf_value |-> SubW(hw.mperf, p.mperf_value),
                  aperf_value |-> SubW(hw.aperf, p.aperf_value),
                  tsc_value   |-> SubW(hw.tsc, p.tsc_value)], "none", 2)

\* a stop() that stores the readings instead of the deltas
aperf_stop_absolute(p) ==
    IF p.state # STARTED THEN Outcome(p, "assert_state", 0)
    ELSE IF ~env.msr_ok THEN Outcome(p, "assert_read", 1)
    ELSE Outcome([state |-> STOPPED,
                  mperf_value |-> hw.mperf,
                  aperf_value |-> hw.aperf,
                  tsc_value   |-> hw.tsc], "none", 2)

\* a stop() that forgets to leave the STARTED state
aperf_stop_stays_started(p) ==
    IF p.state # STARTED THEN Outcome(p, "assert_state", 0)
    ELSE IF ~env.msr_ok THEN Outcome(p, "assert_read", 1)
    ELSE Outcome([state |-> STARTED,
                  mperf_value |-> SubW(hw.mperf, p.mperf_value),
                  aperf_value |-> SubW(hw.aperf, p.aperf_value),
                  tsc_value   |-> SubW(hw.tsc, p.tsc_value)], "none", 2)

\* aperf_ghz::stop
aperf_stop(p) ==
    IF p.state # STARTED THEN Outcome(p, "assert_state", 0)
    ELSE IF ~env.msr_ok THEN Outcome(p, "assert_read", 1)
    ELSE Outcome([state |-> STOPPED,
                  mperf_value |-> SubW(hw.mperf, p.mperf_value),
                  aperf_value |-> SubW(hw.aperf, p.aperf_value),
                  tsc_value   |-> SubW(hw.tsc, p.tsc_value)], "none", 2)

\* The outcome of a ratio accessor: the assert that failed and the value.
Ratio(f, v) == [fault |-> f, value |-> v]

\* aperf_ghz::am_ratio
am_ratio(p) ==
    IF p.state # STOPPED THEN Ratio("assert_state", Zero)
    ELSE IF ~(p.mperf_value # 0 /\ p.aperf_value # 0) THEN Ratio("assert_nonzero", Zero)
    ELSE Ratio("none", Quot(p.aperf_value, p.mperf_value))

\* aperf_ghz::mt_ratio
mt_ratio(p) ==
    IF p.state # STOPPED THEN Ratio("assert_state", Zero)
    ELSE IF ~(p.mperf_value # 0 /\ p.tsc_value # 0) THEN Ratio("assert_nonzero", Zero)
    ELSE Ratio("none", Quot(p.mperf_value, p.tsc_value))

\* outer_timer& outer = use_aperf ? aperf_timer : dummy_outer::dummy, and
\* the virtual calls outer.start() and outer.stop()
outer_start(p) == IF use_aperf THEN aperf_start(p) ELSE dummy_start(p)
outer_stop(p) == IF use_aperf THEN aperf_stop(p) ELSE dummy_stop(p)

\* ------------------------------------------------------------------------
\* Statistics (stats.hpp: get_stats / DescriptiveStats::getMedian)
\* ------------------------------------------------------------------------

\* The median of an odd number of samples: the value with at most half of
\* the samples below it and at most half above it.
getMedian(s) ==
    LET half == Len(s) \div 2
        below(v) == Cardinality({k \in 1..Len(s) : s[k] < v})
        above(v) == Cardinality({k \in 1..Len(s) : s[k] > v})
    IN  CHOOSE v \in {s[k] : k \in 1..Len(s)} : below(v) <= half /\ above(v) <= half

\* ------------------------------------------------------------------------
\* History
\* ------------------------------------------------------------------------

NoCalls ==
    [starts |-> 0, stops |-> 0, kernel_calls |-> 0, unbracketed |-> 0,
     trials |-> 0, passes |-> 0, last_args |-> << >>,
     run_tests |-> 0, returned |-> 0,
     msr_reads |-> 0, tsc_reads |-> 0, am_calls |-> 0, mt_calls |-> 0,
     pinned |-> FALSE, calibrated |-> FALSE,
     bracket_hw |-> [tsc |-> 0, mperf |-> 0, aperf |-> 0], pass_tpi |-> 0,
     freq_changes |-> 0, changed_at |-> -1, probe_calls |-> 0, advances |-> 0,
     diag |-> "none"]

\* ------------------------------------------------------------------------
\* run_test<RdtscClock, TRIES = 101, WARMUP = 3>
\* ------------------------------------------------------------------------

\* std::array<delta_t, TRIES> results: not initialised; -1 marks an element
\* that was never written (no element is read before it is written).
Unwritten == [k \in 1..TRIES |-> -1]

\* the frame of a call run_test(func, iters, outer)
Frame(func, iters, caller) ==
    [func |-> func, iters |-> iters, caller |-> caller,
     w |-> 0, r |-> 0, results |-> Unwritten, ret |-> Zero]

NoFrame == Frame(0, 0, "none")

\* assert(iters % 100 == 0)
ItersOk(iters) == iters % 100 = 0

\* an outer loop that runs one pass too few
MorePassesShort(w) == w < WARMUP

\* for (size_t w = 0; w < WARMUP + 1; w++)
MorePasses(w) == w < WARMUP + 1

\* for (size_t r = 0; r < TRIES; r++)
MoreTries(r) == r < TRIES

\* a delta that leaves the first measurement in
TrialDeltaSecondOnly(t0, t1, t2) == SubW(t2, t1)

\* results[r] = (t2 - t1) - (t1 - t0)
TrialDelta(t0, t1, t2) == SubW(SubW(t2, t1), SubW(t1, t0))

Abort(f) ==
    /\ fault' = f
    /\ exit_status' = "SIGABRT"
    /\ pc' = "aborted"

RtAssert ==
    /\ pc = "rt_assert"
    /\ IF ItersOk(rt.iters)
       THEN pc' = "rt_pass" /\ UNCHANGED << fault, exit_status >>
       ELSE Abort("assert_iters")
    /\ g' = [g EXCEPT !.run_tests = @ + 1, !.passes = 0]
    /\ UNCHANGED << args, env, hw, throttled, aperf_timer, rt, mainVars >>

\* outer.start() at the head of a pass
RtPassStart ==
    /\ pc = "rt_pass"
    /\ MorePasses(rt.w)
    /\ LET o == outer_start(aperf_timer)
       IN  /\ aperf_timer' = o.p
           /\ IF o.fault = "none"
              THEN pc' = "rt_trial" /\ UNCHANGED << fault, exit_status >>
              ELSE Abort(o.fault)
           /\ g' = [g EXCEPT !.starts = @ + 1,
                             !.trials = 0,
                             !.msr_reads = @ + o.reads,
                             !.tsc_reads = @ + (IF o.reads = 2 THEN 1 ELSE 0),
                             !.bracket_hw = hw,
                             !.pass_tpi = TicksPerIter]
    /\ rt' = [rt EXCEPT !.r = 0]
    /\ UNCHANGED << args, env, hw, throttled, mainVars >>

\* one trial: t0 = now(); func(iters); t1 = now(); func(iters * 2);
\* t2 = now(); results[r] = delta
RtTrial ==
    /\ pc = "rt_trial"
    /\ MoreTries(rt.r)
    /\ LET nc == env.machine.now_cost
           t0 == hw.tsc
           h1 == Advance(hw, nc + Elapsed(rt.iters))
           t1 == h1.tsc
           h2 == Advance(h1, nc + Elapsed((rt.iters * 2) % Word))
           t2 == h2.tsc
       IN  /\ hw' = Advance(h2, nc)
           /\ rt' = [rt EXCEPT !.results[rt.r + 1] = TrialDelta(t0, t1, t2),
                               !.r = @ + 1]
           /\ g' = [g EXCEPT !.kernel_calls = @ + 2,
                             !.unbracketed = @ + (IF g.starts = g.stops + 1 THEN 0 ELSE 2),
                             !.trials = @ + 1,
                             !.tsc_reads = @ + 3,
                             !.last_args = << rt.iters, (rt.iters * 2) % Word >>]
    /\ UNCHANGED << args, env, throttled, pc, exit_status, fault, aperf_timer, mainVars >>

\* outer.stop() at the end of a pass
RtPassStop ==
    /\ pc = "rt_trial"
    /\ ~MoreTries(rt.r)
    /\ LET o == outer_stop(aperf_timer)
       IN  /\ aperf_timer' = o.p
           /\ IF o.fault = "none"
              THEN pc' = "rt_pass" /\ UNCHANGED << fault, exit_status >>
              ELSE Abort(o.fault)
           /\ g' = [g EXCEPT !.stops = @ + 1,
                             !.passes = @ + 1,
                             !.msr_reads = @ + o.reads,
                             !.tsc_reads = @ + (IF o.reads = 2 THEN 1 ELSE 0)]
    /\ rt' = [rt EXCEPT !.w = @ + 1]
    /\ UNCHANGED << args, env, hw, throttled, mainVars >>

\* nanos = to_nanos of every result; ghz = iters / median(nanos)
RtGhz(frame) ==
    LET nanos == [k \in 1..TRIES |-> to_nanos(frame.results[k])]
    IN  Quot(frame.iters, getMedian(nanos))

\* the end of run_test: the conversion, the median and the return to the caller
RtReturn ==
    /\ pc = "rt_pass"
    /\ ~MorePasses(rt.w)
    /\ LET ghz == RtGhz(rt)
       IN  /\ rt' = [rt EXCEPT !.ret = ghz]
           /\ CASE rt.caller = "warmup" ->
                     /\ pc' = "filter"
                     /\ UNCHANGED op_results
                [] rt.caller = "measure" ->
                     /\ pc' = "am"
                     /\ op_results' = [op_results EXCEPT ![i + 1] = ghz]
                [] OTHER ->
                     /\ pc' = "returned"
                     /\ UNCHANGED op_results
    /\ g' = [g EXCEPT !.returned = @ + 1]
    /\ UNCHANGED << args, env, hw, throttled, exit_status, fault, use_aperf,
                    isas_supported, aperf_timer, tests, i, aperf_am, aperf_mt, table >>

\* The core changes frequency between two passes.
FreqChange ==
    /\ pc = "rt_pass"
    /\ g.freq_changes < MaxFreqChanges
    /\ throttled' = ~throttled
    /\ g' = [g EXCEPT !.freq_changes = @ + 1, !.changed_at = g.passes]
    /\ UNCHANGED << args, env, hw, pc, exit_status, fault, aperf_timer, rt, mainVars >>

\* table::Table before any row is added
NoTable == [header |-> << >>, rows |-> << >>]

RunTest == RtAssert \/ RtPassStart \/ RtTrial \/ RtPassStop \/ RtReturn

\* ------------------------------------------------------------------------
\* run_test on its own: any iteration count, either probe
\* ------------------------------------------------------------------------

TimerIters == {0, 100, 150, 200}

NoArgs == [help |-> FALSE, iters |-> 100000, focus |-> NoFocus]

InitTimer ==
    /\ args = NoArgs
    /\ env \in [euid_root : {FALSE}, msr_ok : BOOLEAN, pin_ok : {TRUE},
                avx2 : {FALSE}, avx512 : {FALSE}, machine : Machines]
    /\ hw \in HwStarts
    /\ throttled = FALSE
    /\ pc = "rt_assert"
    /\ exit_status = "none"
    /\ fault = "none"
    /\ use_aperf \in BOOLEAN
    /\ isas_supported = 0
    /\ aperf_timer = aperf_ghz_new
    /\ \E n \in TimerIters : rt = Frame(1, n, "harness")
    /\ tests = << >>
    /\ i = 0
    /\ op_results = << >>
    /\ aperf_am = << >>
    /\ aperf_mt = << >>
    /\ table = NoTable
    /\ g = NoCalls

NextTimer == RunTest \/ FreqChange

SpecTimer == InitTimer /\ [][NextTimer]_vars

\* ------------------------------------------------------------------------
\* Test selection
\* ------------------------------------------------------------------------

\* get_isas
get_isas ==
    BitOr(BitOr(BASE, IF env.avx2 THEN AVX2 ELSE 0), IF env.avx512 THEN AVX512 ELSE 0)

\* a should_run that ignores the focus filter
should_run_any_focus(t, isas) == BitAnd(t.isa, isas) # 0

\* should_run
should_run(t, isas) ==
    /\ BitAnd(t.isa, isas) # 0
    /\ (args.focus = NoFocus \/ args.focus = t.id)

\* filter_tests: the loop over ALL_FUNCS, from element k on, appending to ret
RECURSIVE filter_from(_, _, _)
filter_from(k, ret, isas) ==
    IF k > Len(ALL_FUNCS) THEN ret
    ELSE filter_from(k + 1,
                     IF should_run(ALL_FUNCS[k], isas) THEN Append(ret, ALL_FUNCS[k]) ELSE ret,
                     isas)

filter_tests(isas) == filter_from(1, << >>, isas)

\* ------------------------------------------------------------------------
\* main
\* ------------------------------------------------------------------------

Exit(status) ==
    /\ exit_status' = status
    /\ pc' = "exited"

\* a validation that accepts every count
IterArgAny(n) == TRUE

\* main's check: arg_iters.Get() % 100 != 0 is rejected
IterArgOk(n) == n % 100 = 0

\* parser.ParseCLI and the check of arg_iters
ParseArgs ==
    /\ pc = "parse"
    /\ IF args.help
       THEN /\ Exit("EXIT_SUCCESS")
            /\ g' = [g EXCEPT !.diag = "help"]
       ELSE IF ~IterArgOk(args.iters)
       THEN /\ Exit("EXIT_FAILURE")
            /\ g' = [g EXCEPT !.diag = "ITERS must be a multiple of 100"]
       ELSE /\ pc' = "startup"
            /\ UNCHANGED << exit_status, g >>
    /\ UNCHANGED << args, env, hw, throttled, fault, aperf_timer, rt, mainVars >>

\* is_root, use_aperf, pin_to_cpu(0), get_isas, tsc_freq, the probe, and the
\* call of the warm-up measurement run_test(first, 1000000, outer)
Startup ==
    /\ pc = "startup"
    /\ use_aperf' = env.euid_root
    /\ IF ~env.pin_ok
       THEN /\ Exit("EXIT_FAILURE")
            /\ g' = [g EXCEPT !.diag = "could not pin to CPU 0"]
            /\ UNCHANGED << isas_supported, aperf_timer, rt >>
       ELSE /\ isas_supported' = get_isas
            /\ aperf_timer' = aperf_ghz_new
            /\ rt' = Frame(1, WarmupIters, "warmup")
            /\ g' = [g EXCEPT !.pinned = TRUE, !.calibrated = TRUE]
            /\ pc' = "rt_assert"
            /\ UNCHANGED exit_status
    /\ UNCHANGED << args, env, hw, throttled, fault, tests, i, op_results,
                    aperf_am, aperf_mt, table >>

\* iters, zeroupper, filter_tests and the three result vectors
FilterTests ==
    /\ pc = "filter"
    /\ LET sel == filter_tests(isas_supported)
       IN  /\ tests' = sel
           /\ op_results' = [k \in 1..Len(sel) |-> Zero]
           /\ aperf_am' = [k \in 1..Len(sel) |-> Zero]
           /\ aperf_mt' = [k \in 1..Len(sel) |-> Zero]
    /\ i' = 0
    /\ pc' = "loop"
    /\ UNCHANGED << args, env, hw, throttled, exit_status, fault, use_aperf,
                    isas_supported, aperf_timer, rt, table, g >>

\* the loop head with a test left: run_test(tests[i].func, iters, outer)
LoopCall ==
    /\ pc = "loop"
    /\ i < Len(tests)
    /\ rt' = Frame(i + 1, args.iters, "measure")
    /\ pc' = "rt_assert"
    /\ UNCHANGED << args, env, hw, throttled, exit_status, fault, aperf_timer,
                    mainVars, g >>

\* a gate that consults the probe whatever the privilege
GateOpen == TRUE

\* the gate of the ratio computations: use_aperf ? ... : 0.0
Gate == use_aperf

\* aperf_am[i] = use_aperf ? aperf_timer.am_ratio() : 0.0
RecordAm ==
    /\ pc = "am"
    /\ IF Gate
       THEN LET q == am_ratio(aperf_timer)
            IN  /\ g' = [g EXCEPT !.am_calls = @ + 1]
                /\ IF q.fault = "none"
                   THEN /\ aperf_am' = [aperf_am EXCEPT ![i + 1] = q.value]
                        /\ pc' = "mt"
                        /\ UNCHANGED << fault, exit_status >>
                   ELSE /\ Abort(q.fault)
                        /\ UNCHANGED aperf_am
       ELSE /\ aperf_am' = [aperf_am EXCEPT ![i + 1] = Zero]
            /\ pc' = "mt"
            /\ UNCHANGED << fault, exit_status, g >>
    /\ UNCHANGED << args, env, hw, throttled, use_aperf, isas_supported,
                    aperf_timer, rt, tests, i, op_results, aperf_mt, table >>

\* aperf_mt[i] = use_aperf ? aperf_timer.mt_ratio() : 0.0, and i++
RecordMt ==
    /\ pc = "mt"
    /\ IF Gate
       THEN LET q == mt_ratio(aperf_timer)
            IN  /\ g' = [g EXCEPT !.mt_calls = @ + 1]
                /\ IF q.fault = "none"
                   THEN /\ aperf_mt' = [aperf_mt EXCEPT ![i + 1] = q.value]
                        /\ i' = i + 1
                        /\ pc' = "loop"
                        /\ UNCHANGED << fault, exit_status >>
                   ELSE /\ Abort(q.fault)
                        /\ UNCHANGED << aperf_mt, i >>
       ELSE /\ aperf_mt' = [aperf_mt EXCEPT ![i + 1] = Zero]
            /\ i' = i + 1
            /\ pc' = "loop"
            /\ UNCHANGED << fault, exit_status, g >>
    /\ UNCHANGED << args, env, hw, throttled, use_aperf, isas_supported,
                    aperf_timer, rt, tests, op_results, aperf_am, table >>

\* the header of the report
Header ==
    << "ID", "Description", "Mops" >>
        \o (IF use_aperf THEN << "A/M-ratio", "A/M-MHz", "M/tsc-ratio" >> ELSE << >>)

\* the row of tests[k]: id, description, Mops and, with the real probe, the
\* three ratio cells (the cells hold the values that are formatted)
Row(k) ==
    << tests[k].id, tests[k].description,
       Quot(op_results[k].num * 1000, op_results[k].den) >>
        \o (IF use_aperf
            THEN << aperf_am[k], [ratio |-> aperf_am[k], mhz |-> tsc_freq], aperf_mt[k] >>
            ELSE << >>)

\* the loop is over: the table is built and printed, main returns EXIT_SUCCESS
Report ==
    /\ pc = "loop"
    /\ ~(i < Len(tests))
    /\ table' = [header |-> Header, rows |-> [k \in 1..Len(tests) |-> Row(k)]]
    /\ Exit("EXIT_SUCCESS")
    /\ UNCHANGED << args, env, hw, throttled, fault, use_aperf, isas_supported,
                    aperf_timer, rt, tests, i, op_results, aperf_am, aperf_mt, g >>

\* the command lines and platforms the model runs main on
IterArgs == {0, 100, 150, 100000}

FocusArgs == {NoFocus, "scalar_iadd", "avx256_iadd", "avx512_iadd", "no_such_test"}

Init ==
    /\ args \in [help : BOOLEAN, iters : IterArgs, focus : FocusArgs]
    /\ env \in [euid_root : BOOLEAN, msr_ok : BOOLEAN, pin_ok : BOOLEAN,
                avx2 : BOOLEAN, avx512 : BOOLEAN, machine : Machines]
    /\ env.msr_ok => env.euid_root
    /\ hw \in HwStarts
    /\ throttled = FALSE
    /\ pc = "parse"
    /\ exit_status = "none"
    /\ fault = "none"
    /\ use_aperf = FALSE
    /\ isas_supported = 0
    /\ aperf_timer = aperf_ghz_new
    /\ rt = NoFrame
    /\ tests = << >>
    /\ i = 0
    /\ op_results = << >>
    /\ aperf_am = << >>
    /\ aperf_mt = << >>
    /\ table = NoTable
    /\ g = NoCalls

Next ==
    \/ ParseArgs
    \/ Startup
    \/ RunTest
    \/ FilterTests
    \/ LoopCall
    \/ RecordAm
    \/ RecordMt
    \/ Report

Spec == Init /\ [][Next]_vars

\* ------------------------------------------------------------------------
\* A probe on its own: a driver that calls start(), stop() and the ratio
\* accessors in any order while the counters advance
\* ------------------------------------------------------------------------

DriverCall ==
    /\ pc = "driver"
    /\ g.probe_calls < MaxProbeCalls

\* outer.start()
DriverStart ==
    /\ DriverCall
    /\ LET o == outer_start(aperf_timer)
       IN  /\ aperf_timer' = o.p
           /\ IF o.fault = "none"
              THEN UNCHANGED << pc, fault, exit_status >>
              ELSE Abort(o.fault)
           /\ g' = [g EXCEPT !.probe_calls = @ + 1,
                             !.starts = @ + 1,
                             !.msr_reads = @ + o.reads,
                             !.bracket_hw = IF o.fault = "none" THEN hw ELSE @]
    /\ UNCHANGED << args, env, hw, throttled, rt, mainVars >>

\* outer.stop()
DriverStop ==
    /\ DriverCall
    /\ LET o == outer_stop(aperf_timer)
       IN  /\ aperf_timer' = o.p
           /\ IF o.fault = "none"
              THEN UNCHANGED << pc, fault, exit_status >>
              ELSE Abort(o.fault)
           /\ g' = [g EXCEPT !.probe_calls = @ + 1,
                             !.stops = @ + 1,
                             !.msr_reads = @ + o.reads]
    /\ UNCHANGED << args, env, hw, throttled, rt, mainVars >>

\* aperf_timer.am_ratio(); only aperf_ghz has the accessor
DriverAm ==
    /\ DriverCall
    /\ use_aperf
    /\ LET q == am_ratio(aperf_timer)
       IN  /\ IF q.fault = "none"
              THEN UNCHANGED << pc, fault, exit_status >>
              ELSE Abort(q.fault)
           /\ g' = [g EXCEPT !.probe_calls = @ + 1, !.am_calls = @ + 1]
    /\ UNCHANGED << args, env, hw, throttled, aperf_timer, rt, mainVars >>

\* aperf_timer.mt_ratio()
DriverMt ==
    /\ DriverCall
    /\ use_aperf
    /\ LET q == mt_ratio(aperf_timer)
       IN  /\ IF q.fault = "none"
              THEN UNCHANGED << pc, fault, exit_status >>
              ELSE Abort(q.fault)
           /\ g' = [g EXCEPT !.probe_calls = @ + 1, !.mt_calls = @ + 1]
    /\ UNCHANGED << args, env, hw, throttled, aperf_timer, rt, mainVars >>

\* The core executes for a while: all three counters advance.
DriverWork ==
    /\ pc = "driver"
    /\ g.advances < MaxAdvances
    /\ \E ticks \in {1, 6} : hw' = Advance(hw, ticks)
    /\ g' = [g EXCEPT !.advances = @ + 1]
    /\ UNCHANGED << args, env, throttled, pc, exit_status, fault, aperf_timer,
                    rt, mainVars >>

\* The core is halted for a while: only the TSC advances.
DriverIdle ==
    /\ pc = "driver"
    /\ g.advances < MaxAdvances
    /\ hw' = [hw EXCEPT !.tsc = AddW(@, 4)]
    /\ g' = [g EXCEPT !.advances = @ + 1]
    /\ UNCHANGED << args, env, throttled, pc, exit_status, fault, aperf_timer,
                    rt, mainVars >>

InitProbe ==
    /\ args = NoArgs
    /\ env \in [euid_root : {FALSE}, msr_ok : BOOLEAN, pin_ok : {TRUE},
                avx2 : {FALSE}, avx512 : {FALSE}, machine : Machines]
    /\ hw \in HwStarts
    /\ throttled = FALSE
    /\ pc = "driver"
    /\ exit_status = "none"
    /\ fault = "none"
    /\ use_aperf \in BOOLEAN
    /\ isas_supported = 0
    /\ aperf_timer = aperf_ghz_new
    /\ rt = NoFrame
    /\ tests = << >>
    /\ i = 0
    /\ op_results = << >>
    /\ aperf_am = << >>
    /\ aperf_mt = << >>
    /\ table = NoTable
    /\ g = NoCalls

NextProbe ==
    \/ DriverStart
    \/ DriverStop
    \/ DriverAm
    \/ DriverMt
    \/ DriverWork
    \/ DriverIdle

SpecProbe == InitProbe /\ [][NextProbe]_vars

\* main and the free probe driver side by side
InitBoth == Init \/ InitProbe

NextBoth == Next \/ NextProbe

SpecBoth == InitBoth /\ [][NextBoth]_vars

\* ========================================================================
\* Properties
\* ========================================================================

\* main ran to its end: the report was built and main returned
Completed == pc = "exited" /\ table.header # << >>

\* ------------------------------------------------------------------------
\* C1.  Overhead cancellation.  For a kernel that takes a*n + c ticks, every
\* delta a pass has stored so far equals a*N (modulo the register width),
\* whatever the per-call cost c and the cost of a clock read are; so the
\* median of a finished run_test is a*N as well.  (SpecTimer)
\* ------------------------------------------------------------------------
C1_OverheadCancelled ==
    /\ \A k \in 1..rt.r : rt.results[k] = (g.pass_tpi * rt.iters) % Word
    /\ pc = "returned" => getMedian(rt.results) = (g.pass_tpi * rt.iters) % Word

C1_Witness ==
    /\ pc = "returned"
    /\ env.machine.c > 0
    /\ rt.iters = 200
    /\ rt.results[TRIES] = env.machine.a * 200

\* ------------------------------------------------------------------------
\* C2.  One run_test is WARMUP+1 passes, each one start(), TRIES trials of
\* kernel(N) then kernel(2N), one stop(); no kernel call is made outside a
\* bracket.  What is left when run_test returns comes from the last pass
\* alone: the samples are the last pass's deltas and the probe holds the
\* counter deltas of the last bracket.  (SpecTimer)
\* ------------------------------------------------------------------------
C2_LastPassTicks ==
    TRIES * (3 * env.machine.now_cost + 3 * g.pass_tpi * rt.iters + 2 * env.machine.c)

C2_PassStructure ==
    pc # "aborted" =>
        /\ g.unbracketed = 0
        /\ g.trials <= TRIES
        /\ g.starts = g.passes + (IF pc = "rt_trial" THEN 1 ELSE 0)
        /\ g.stops = g.passes
        /\ g.kernel_calls = 2 * (TRIES * g.passes + (IF pc = "rt_trial" THEN g.trials ELSE 0))
        /\ (pc = "rt_pass" /\ g.passes > 0 => g.trials = TRIES)
        /\ (g.kernel_calls > 0 => g.last_args = << rt.iters, 2 * rt.iters >>)
        /\ (pc = "returned" =>
               /\ g.passes = WARMUP + 1
               /\ \A k \in 1..TRIES : rt.results[k] = (g.pass_tpi * rt.iters) % Word
               /\ (use_aperf =>
                      /\ aperf_timer.state = STOPPED
                      /\ aperf_timer.tsc_value = C2_LastPassTicks % Word
                      /\ aperf_timer.mperf_value = C2_LastPassTicks % Word
                      /\ aperf_timer.aperf_value =
                            (C2_LastPassTicks *
                               (IF g.pass_tpi = env.machine.a THEN env.machine.turbo ELSE 1)) % Word))

C2_Witness ==
    /\ pc = "returned"
    /\ use_aperf
    /\ rt.iters = 200
    /\ g.changed_at \in 1..WARMUP
    /\ g.starts = WARMUP + 1
    /\ g.kernel_calls = 2 * TRIES * (WARMUP + 1)

\* ------------------------------------------------------------------------
\* C9.  For every accepted iteration count and every kernel whose time grows
\* with N, run_test returns a finite, positive throughput: the median of the
\* nanosecond samples is not zero and N / median is greater than zero.
\* (SpecTimer)
\* ------------------------------------------------------------------------
C9_ThroughputFinitePositive ==
    pc = "returned" =>
        /\ getMedian([k \in 1..TRIES |-> to_nanos(rt.results[k])]) # 0
        /\ IsFinite(rt.ret)
        /\ IsPositive(rt.ret)

\* ------------------------------------------------------------------------
\* Calls on the probe, as steps
\* ------------------------------------------------------------------------

StartCalled == g'.starts = g.starts + 1
StopCalled == g'.stops = g.stops + 1
AmCalled == g'.am_calls = g.am_calls + 1
MtCalled == g'.mt_calls = g.mt_calls + 1

\* the call of the step returned
Returned == fault' = "none"

\* the call of the step failed the assertion `which` and the process aborted
Failed(which) == fault' = which /\ exit_status' = "SIGABRT" /\ pc' = "aborted"

\* ------------------------------------------------------------------------
\* C3.  The probe's state protocol.  An aperf_ghz is constructed STOPPED.
\* start() returns only when called in STOPPED, and leaves STARTED; stop()
\* returns only when called in STARTED, and leaves STOPPED; am_ratio() and
\* mt_ratio() return only when called in STOPPED.  Called in the other
\* state, each fails its state assertion and the process aborts: stop()
\* with no start() before it, start() twice in a row, a ratio accessor
\* while STARTED.  (SpecProbe)
\* ------------------------------------------------------------------------
C3_ProbeProtocol ==
    /\ aperf_timer.state = STOPPED
    /\ [][use_aperf =>
            /\ (StartCalled =>
                   /\ (Returned => aperf_timer.state = STOPPED /\ aperf_timer'.state = STARTED)
                   /\ (aperf_timer.state # STOPPED => Failed("assert_state")))
            /\ (StopCalled =>
                   /\ (Returned => aperf_timer.state = STARTED /\ aperf_timer'.state = STOPPED)
                   /\ (aperf_timer.state # STARTED => Failed("assert_state")))
            /\ (AmCalled \/ MtCalled =>
                   /\ (Returned => aperf_timer.state = STOPPED)
                   /\ (aperf_timer.state # STOPPED => Failed("assert_state")))
            /\ (aperf_timer'.state # aperf_timer.state => StartCalled \/ StopCalled)]_vars

\* stop() was called on a probe that was never started, and failed
C3_Witness ==
    /\ use_aperf
    /\ g.starts = 0
    /\ g.stops = 1
    /\ fault = "assert_state"
    /\ exit_status = "SIGABRT"

\* ------------------------------------------------------------------------
\* C4.  The probe's deltas.  A stop() that returns leaves in each of the
\* three fields the counter's reading at that stop minus its reading at the
\* matching start, modulo the register width; a start() that returns
\* replaces the three fields by the readings, whatever an earlier bracket
\* left, so nothing accumulates.  A ratio accessor called while one of the
\* two deltas it uses is zero (as on a probe never started) fails and the
\* process aborts.  (SpecProbe)
\* ------------------------------------------------------------------------
C4_ProbeDeltas ==
    [][use_aperf =>
          /\ (StartCalled /\ Returned =>
                 /\ aperf_timer'.mperf_value = hw.mperf
                 /\ aperf_timer'.aperf_value = hw.aperf
                 /\ aperf_timer'.tsc_value = hw.tsc)
          /\ (StopCalled /\ Returned =>
                 /\ aperf_timer'.mperf_value = (hw.mperf - g.bracket_hw.mperf) % Word
                 /\ aperf_timer'.aperf_value = (hw.aperf - g.bracket_hw.aperf) % Word
                 /\ aperf_timer'.tsc_value = (hw.tsc - g.bracket_hw.tsc) % Word)
          /\ (AmCalled /\ (aperf_timer.mperf_value = 0 \/ aperf_timer.aperf_value = 0)
                 => fault' # "none" /\ exit_status' = "SIGABRT")
          /\ (MtCalled /\ (aperf_timer.mperf_value = 0 \/ aperf_timer.tsc_value = 0)
                 => fault' # "none" /\ exit_status' = "SIGABRT")
          /\ (~(StartCalled \/ StopCalled) =>
                 /\ aperf_timer'.mperf_value = aperf_timer.mperf_value
                 /\ aperf_timer'.aperf_value = aperf_timer.aperf_value
                 /\ aperf_timer'.tsc_value = aperf_timer.tsc_value)]_vars

\* a second bracket has ended, across a wrap of the TSC, and the probe holds
\* its delta
C4_Witness ==
    /\ use_aperf
    /\ fault = "none"
    /\ g.starts = 2
    /\ g.stops = 2
    /\ aperf_timer.state = STOPPED
    /\ hw.tsc < g.bracket_hw.tsc
    /\ aperf_timer.tsc_value = 6
    /\ aperf_timer.mperf_value = 6

\* ------------------------------------------------------------------------
\* C5.  Test selection.  Once filter_tests has run, tests is exactly the
\* kernels of the registry, in registry order, whose instruction set the
\* CPU has and that the focus filter (if set) names; every selected kernel
\* gets one run_test call and one row.  A focus that names no kernel selects
\* nothing and is no error: no measurement runs, the report is produced
\* with no row and main returns EXIT_SUCCESS.  (Spec)
\* ------------------------------------------------------------------------
Filtered == pc = "loop" \/ rt.caller = "measure" \/ Completed

\* the CPU has the instruction set the registry's k-th kernel needs
C5_Capable(k) ==
    \/ ALL_FUNCS[k].isa = BASE
    \/ ALL_FUNCS[k].isa = AVX2 /\ env.avx2
    \/ ALL_FUNCS[k].isa = AVX512 /\ env.avx512

C5_Wanted ==
    {k \in 1..Len(ALL_FUNCS) :
        C5_Capable(k) /\ (args.focus = NoFocus \/ args.focus = ALL_FUNCS[k].id)}

\* the j-th smallest index of C5_Wanted
C5_Nth(j) == CHOOSE k \in C5_Wanted : Cardinality({m \in C5_Wanted : m < k}) = j - 1

C5_FocusUnmatched ==
    args.focus # NoFocus /\ \A k \in 1..Len(ALL_FUNCS) : ALL_FUNCS[k].id # args.focus

C5_Selection ==
    /\ (~Filtered => tests = << >>)
    /\ (Filtered =>
           /\ Len(tests) = Cardinality(C5_Wanted)
           /\ \A j \in 1..Len(tests) : tests[j] = ALL_FUNCS[C5_Nth(j)]
           /\ (env.avx2 /\ ~env.avx512 =>
                  \A j \in 1..Len(tests) : tests[j].id # "avx512_iadd")
           /\ (~env.avx2 /\ ~env.avx512 =>
                  \A j \in 1..Len(tests) : tests[j].id = "scalar_iadd")
           /\ (pc = "loop" => g.run_tests = 1 + i /\ g.returned = 1 + i)
           /\ (pc \in {"rt_assert", "rt_pass", "rt_trial", "am", "mt"} =>
                  /\ rt.caller = "measure"
                  /\ rt.func = i + 1
                  /\ rt.func <= Len(tests)
                  /\ g.run_tests = (IF pc = "rt_assert" THEN i + 1 ELSE i + 2))
           /\ (Completed =>
                  /\ exit_status = "EXIT_SUCCESS"
                  /\ g.run_tests = 1 + Len(tests)
                  /\ Len(table.rows) = Len(tests)
                  /\ \A j \in 1..Len(tests) : table.rows[j][1] = tests[j].id)
           /\ (C5_FocusUnmatched =>
                  /\ tests = << >>
                  /\ g.run_tests = 1
                  /\ fault = "none"
                  /\ exit_status # "EXIT_FAILURE"
                  /\ (pc = "loop" \/ (Completed /\ table.rows = << >>))))

\* with AVX2 and without AVX-512 the three kernels but the 512-bit one ran
C5_Witness ==
    /\ Completed
    /\ env.avx2 /\ ~env.avx512
    /\ args.focus = NoFocus
    /\ Len(tests) = 3
    /\ Len(table.rows) = 3
    /\ g.run_tests = 4

\* ------------------------------------------------------------------------
\* C6.  Validation of the iteration count.  A count that is not a multiple
\* of 100 ends the process with the diagnostic and EXIT_FAILURE before
\* anything else happened: no pinning, no calibration, no counter or tick
\* read, no kernel call.  A multiple of 100 is accepted: the run goes on to
\* start-up and the first measurement.  (Both for a command line that does
\* not ask for the help text, which ParseCLI answers first.)  (Spec)
\* ------------------------------------------------------------------------
C6_Untouched ==
    /\ ~g.pinned /\ ~g.calibrated
    /\ g.msr_reads = 0 /\ g.tsc_reads = 0
    /\ g.kernel_calls = 0 /\ g.run_tests = 0 /\ g.starts = 0
    /\ hw \in HwStarts

C6_IterValidation ==
    ~args.help =>
        /\ (args.iters % 100 # 0 =>
               /\ C6_Untouched
               /\ \/ pc = "parse"
                  \/ /\ pc = "exited"
                     /\ exit_status = "EXIT_FAILURE"
                     /\ g.diag = "ITERS must be a multiple of 100")
        /\ (args.iters % 100 = 0 =>
               /\ g.diag # "ITERS must be a multiple of 100"
               /\ fault # "assert_iters"
               /\ (pc \notin {"parse", "startup"} /\ env.pin_ok =>
                      g.pinned /\ g.run_tests + (IF pc = "rt_assert" THEN 1 ELSE 0) >= 1))

C6_Witness ==
    /\ args.iters = 150
    /\ pc = "exited"
    /\ exit_status = "EXIT_FAILURE"
    /\ g.diag = "ITERS must be a multiple of 100"

\* ------------------------------------------------------------------------
\* C7.  Privilege fallback.  When the hardware counters cannot be read, the
\* harness runs with the no-op probe and ends normally: a failing counter
\* read is never a hard failure.  (Spec)
\* ------------------------------------------------------------------------
C7_ReadFailureDegrades ==
    ~env.msr_ok =>
        /\ fault # "assert_read"
        /\ exit_status # "SIGABRT"

\* ------------------------------------------------------------------------
\* C8.  Ratio gating, as stated: in every execution the ratio accessors are
\* called if and only if the real probe was selected.  (SpecBoth)
\* ------------------------------------------------------------------------
C8_CalledIffRealProbe ==
    Completed => ((g.am_calls > 0 /\ g.mt_calls > 0) <=> use_aperf)

\* ------------------------------------------------------------------------
\* C8, amended.  The ratio accessors are called only if the real probe was
\* selected; a run that completes with the real probe has called each once
\* per selected kernel (not at all when no kernel is selected).  With the
\* no-op probe, start() and stop() in any number and order are null
\* operations that never fail, the probe reads no hardware counter, the
\* recorded ratios are 0 and the report has no ratio column.  (SpecBoth)
\* ------------------------------------------------------------------------
C8_RatioGating ==
    /\ (g.am_calls > 0 \/ g.mt_calls > 0 => use_aperf)
    /\ (Completed /\ use_aperf => g.am_calls = Len(tests) /\ g.mt_calls = Len(tests))
    /\ (~use_aperf =>
           /\ g.msr_reads = 0
           /\ aperf_timer = aperf_ghz_new
           /\ fault \in {"none", "assert_iters"}
           /\ \A k \in 1..Len(aperf_am) : aperf_am[k] = Zero /\ aperf_mt[k] = Zero
           /\ (Completed =>
                  /\ table.header = << "ID", "Description", "Mops" >>
                  /\ \A k \in 1..Len(table.rows) : Len(table.rows[k]) = 3))

\* a complete run with the no-op probe: four kernels measured, no accessor
\* called, no counter read
C8_Witness ==
    /\ Completed
    /\ ~use_aperf
    /\ Len(tests) = 4
    /\ g.starts = 5 * (WARMUP + 1)
    /\ g.am_calls = 0
    /\ Len(table.rows) = 4

\* ------------------------------------------------------------------------
\* C10.  Probe discipline of a whole run.  With the real probe, the calls on
\* the one probe alternate start, stop, start, stop, ... beginning with
\* start; a run that completes has made (1 + selected kernels) * (WARMUP+1)
\* brackets.  The probe is STOPPED whenever run_test has returned, and the
\* ratio accessors for kernel i are called after run_test for kernel i
\* returned and before run_test for kernel i+1 starts: no state assertion of
\* the probe fails.  (Spec)
\* ------------------------------------------------------------------------
C10_InRunTest == pc \in {"rt_assert", "rt_pass", "rt_trial"}

C10_ProbeDiscipline ==
    use_aperf =>
        /\ g.stops <= g.starts /\ g.starts <= g.stops + 1
        /\ (aperf_timer.state = STARTED <=> g.starts = g.stops + 1)
        /\ fault # "assert_state"
        /\ (Completed =>
               /\ g.starts = (1 + Len(tests)) * (WARMUP + 1)
               /\ g.stops = (1 + Len(tests)) * (WARMUP + 1))
        /\ (pc \in {"filter", "loop", "am", "mt", "exited"} => aperf_timer.state = STOPPED)
        /\ (pc \in {"filter", "loop", "am", "mt"} => g.starts = g.returned * (WARMUP + 1))
        /\ (C10_InRunTest /\ rt.caller = "warmup" => g.am_calls = 0 /\ g.mt_calls = 0)
        /\ (C10_InRunTest /\ rt.caller = "measure" =>
               g.am_calls = i /\ g.mt_calls = i /\ g.returned = i + 1)
        /\ (pc = "am" => g.am_calls = i /\ g.mt_calls = i /\ g.returned = i + 2)
        /\ (pc = "mt" => g.am_calls = i + 1 /\ g.mt_calls = i /\ g.returned = i + 2)
        /\ (pc = "loop" => g.am_calls = i /\ g.mt_calls = i /\ g.returned = i + 1)

C10_Witness ==
    /\ Completed
    /\ use_aperf
    /\ Len(tests) = 4
    /\ g.starts = 20
    /\ g.stops = 20
    /\ g.am_calls = 4
    /\ g.mt_calls = 4

====
